---- MODULE Spec2Model ----
(***************************************************************************)
(* The match_nodes! macro of pest_consume_macros (src/match_nodes.rs).     *)
(*                                                                         *)
(* The macro is a two-stage program.  At expansion time match_nodes()      *)
(* calls make_branch() on every branch and turns it into one guarded arm   *)
(* `_ if c1 && c2 && .. && true => { parses; body }` of a `match ()`; a    *)
(* branch with two variable-length items makes the whole expansion fail.   *)
(* At run time the generated block computes the rule tags of the children  *)
(* once, tries the arms in order, and in the first arm whose guard holds   *)
(* converts the children one by one (`Parser::rule(node)?`) before it runs *)
(* the body; without such an arm it returns the "didn't match" error.      *)
(*                                                                         *)
(* A child is identified by its 1-based position in the node; the source's *)
(* 0-based indices are kept inside the conditions and shifted on access.   *)
(* A conversion function is opaque: each call succeeds or fails, chosen    *)
(* nondeterministically, and its value is the pair (rule, child).          *)
(***************************************************************************)
EXTENDS Integers, Sequences, FiniteSets, TLC

\* Bounds of the explored inputs.
MaxBranches == 2
MaxItems == 4
MaxChildren == 4

\* The grammar's aliased rules.
Rules == {"A", "B"}

NoRule == "-"

\* enum MatchBranchPatternItem: the binder of an item is identified by the
\* item's declared position in the pattern.
Items == [kind : {"Single", "Multiple"}, rule : Rules]

VARIABLES
    branches,   \* MacroInput.branches: the declared patterns, in order
    tags,       \* ___node_rules: the rule tag of every child, in child order
    pc,         \* "expand", "match", "parse", "done"
    arms,       \* the arms generated so far (the collected make_branch results)
    bi,         \* the branch being expanded, then the arm being tried / run
    verdicts,   \* the value of the guard of every arm tried so far
    nodes,      \* ___nodes: the children not consumed yet, in child order
    step,       \* the next statement of the running arm's parses
    vec,        \* the Vec being collected for the variable-length binder
    calls,      \* every conversion call made, in call order
    env,        \* the binders in scope: declared position -> value
    outcome,    \* "none", "SpecError", "NoMatch", "ConvError", "Panic", "Ok"
    result,     \* what the body ran with: <<branch, env>> (Ok only)
    error       \* the payload of the error returned

vars == <<branches, tags, pc, arms, bi, verdicts, nodes, step, vec, calls, env,
          outcome, result, error>>

----------------------------------------------------------------------------
\* Generic helpers

Reverse(s) == [i \in 1..Len(s) |-> s[Len(s) + 1 - i]]

Last(s) == s[Len(s)]

Front(s) == SubSeq(s, 1, Len(s) - 1)

----------------------------------------------------------------------------
\* make_branch: splitting the pattern

EmptySplit == [before |-> <<>>, multiple |-> <<>>, after |-> <<>>, err |-> FALSE]

\* ScanItem with a second variable-length item replacing the first instead of
\* being rejected.
ScanItemOverwrite(acc, item, k) ==
    IF item.kind = "Single"
    THEN IF acc.multiple = <<>>
         THEN [acc EXCEPT !.before = Append(@, [rule |-> item.rule, binder |-> k])]
         ELSE [acc EXCEPT !.after = Append(@, [rule |-> item.rule, binder |-> k])]
    ELSE [acc EXCEPT !.multiple = <<[rule |-> item.rule, binder |-> k]>>]

\* One iteration of `for item in &branch.pattern`; `multiple` is an Option,
\* kept as a sequence of length 0 or 1.  Once Err has been returned no later
\* item is looked at.
ScanItem(acc, item, k) ==
    IF acc.err THEN acc
    ELSE IF item.kind = "Single"
    THEN IF acc.multiple = <<>>
         THEN [acc EXCEPT !.before = Append(@, [rule |-> item.rule, binder |-> k])]
         ELSE [acc EXCEPT !.after = Append(@, [rule |-> item.rule, binder |-> k])]
    ELSE IF acc.multiple = <<>>
         THEN [acc EXCEPT !.multiple = <<[rule |-> item.rule, binder |-> k]>>]
         ELSE [acc EXCEPT !.err = TRUE]

RECURSIVE ScanFrom(_, _, _)
ScanFrom(pattern, k, acc) ==
    IF k > Len(pattern) THEN acc
    ELSE ScanFrom(pattern, k + 1, ScanItem(acc, pattern[k], k))

SplitPattern(pattern) == ScanFrom(pattern, 1, EmptySplit)

----------------------------------------------------------------------------
\* make_branch: the conditions of the guard

Cond(kind, start, end, i, rule) ==
    [kind |-> kind, start |-> start, end |-> end, i |-> i, rule |-> rule]

\* `for (i, (rule_name, _)) in singles_before_multiple.iter().enumerate()`
FrontConds(sp) ==
    [x \in 1..Len(sp.before) |-> Cond("Front", 0, 0, x - 1, sp.before[x].rule)]

\* `for (i, (rule_name, _)) in singles_after_multiple.iter().enumerate()`
BackConds(sp) ==
    [x \in 1..Len(sp.after) |-> Cond("Back", 0, 0, x - 1, sp.after[x].rule)]

\* TailConds with the slice `start..` instead of `start..len - end`.
TailCondsOpenEnd(sp) ==
    IF sp.multiple # <<>>
    THEN <<Cond("AllMatch", Len(sp.before), 0, 0, sp.multiple[1].rule)>>
    ELSE <<Cond("LenEq", Len(sp.before), Len(sp.after), 0, NoRule)>>

\* TailConds without the exact-size condition.
TailCondsNoLenEq(sp) ==
    IF sp.multiple # <<>>
    THEN <<Cond("AllMatch", Len(sp.before), Len(sp.after), 0, sp.multiple[1].rule)>>
    ELSE <<>>

\* The last condition: all_match over the middle slice, or the exact length.
TailConds(sp) ==
    IF sp.multiple # <<>>
    THEN <<Cond("AllMatch", Len(sp.before), Len(sp.after), 0, sp.multiple[1].rule)>>
    ELSE <<Cond("LenEq", Len(sp.before), Len(sp.after), 0, NoRule)>>

\* LenConds without the `start + end <= len` condition.
LenCondsNone(sp) == <<>>

\* The first condition: the node has room for the fixed items.
LenConds(sp) == <<Cond("LenLe", Len(sp.before), Len(sp.after), 0, NoRule)>>

Conditions(sp) == LenConds(sp) \o FrontConds(sp) \o BackConds(sp) \o TailConds(sp)

----------------------------------------------------------------------------
\* make_branch: the statements that parse the nodes

Parse(kind, item) == [kind |-> kind, rule |-> item.rule, binder |-> item.binder]

FrontParses(sp) == [x \in 1..Len(sp.before) |-> Parse("next", sp.before[x])]

\* BackOrder without the `rev()`.
BackOrderDeclared(after) == after

\* `singles_after_multiple.into_iter().rev()`
BackOrder(after) == Reverse(after)

BackParses(sp) ==
    [x \in 1..Len(sp.after) |-> Parse("next_back", BackOrder(sp.after)[x])]

RestParses(sp) ==
    IF sp.multiple # <<>> THEN <<Parse("collect", sp.multiple[1])>> ELSE <<>>

Parses(sp) == FrontParses(sp) \o BackParses(sp) \o RestParses(sp)

\* make_branch as a whole: Err, or the generated arm.
MakeBranch(pattern) ==
    LET sp == SplitPattern(pattern)
    IN  IF sp.err
        THEN [err |-> TRUE, conditions |-> <<>>, parses |-> <<>>]
        ELSE [err |-> FALSE, conditions |-> Conditions(sp), parses |-> Parses(sp)]

----------------------------------------------------------------------------
\* The generated guard, evaluated as Rust evaluates it.  usize subtraction
\* below zero, an index outside the slice and a range whose start exceeds its
\* end all panic (in a release build the subtraction wraps and the index or
\* range built from it panics instead).

EvalCond(c, rules) ==
    LET n == Len(rules)
    IN  CASE c.kind = "LenLe" ->
                IF c.start + c.end <= n THEN "true" ELSE "false"
          [] c.kind = "Front" ->
                IF c.i >= n THEN "panic"
                ELSE IF rules[c.i + 1] = c.rule THEN "true" ELSE "false"
          [] c.kind = "Back" ->
                IF n - 1 - c.i < 0 THEN "panic"
                ELSE IF rules[n - 1 - c.i + 1] = c.rule THEN "true" ELSE "false"
          [] c.kind = "AllMatch" ->
                IF n - c.end < 0 \/ c.start > n - c.end THEN "panic"
                ELSE IF \A x \in (c.start + 1)..(n - c.end) : rules[x] = c.rule
                     THEN "true" ELSE "false"
          [] c.kind = "LenEq" ->
                IF c.start + c.end = n THEN "true" ELSE "false"

\* `c1 && c2 && .. && true`: left to right, stopping at the first false.
RECURSIVE EvalFrom(_, _, _)
EvalFrom(conds, k, rules) ==
    IF k > Len(conds) THEN "true"
    ELSE LET v == EvalCond(conds[k], rules)
         IN  IF v = "true" THEN EvalFrom(conds, k + 1, rules) ELSE v

EvalGuard(conds, rules) == EvalFrom(conds, 1, rules)

----------------------------------------------------------------------------
\* The inputs

Patterns(k) == UNION {[1..m -> Items] : m \in 0..k}

TagSeqs(k) == UNION {[1..m -> Rules] : m \in 0..k}

\* The branch lists of at most b branches with at most t items in total.
RECURSIVE BranchLists(_, _)
BranchLists(b, t) ==
    IF b = 0 THEN {<<>>}
    ELSE {<<>>} \cup
         UNION {{<<p>> \o l : l \in BranchLists(b - 1, t - Len(p))} : p \in Patterns(t)}

InitRest ==
    /\ pc = "expand"
    /\ arms = <<>>
    /\ bi = 1
    /\ verdicts = <<>>
    /\ nodes = <<>>
    /\ step = 1
    /\ vec = <<>>
    /\ calls = <<>>
    /\ env = <<>>
    /\ outcome = "none"
    /\ result = <<>>
    /\ error = <<>>

\* One branch with a long pattern over a long child sequence.
InitDeep ==
    /\ branches \in {<<p>> : p \in Patterns(MaxItems)}
    /\ tags \in TagSeqs(MaxChildren)

\* Several branches with short patterns over a short child sequence.
InitWide ==
    /\ branches \in BranchLists(MaxBranches, MaxItems - 1)
    /\ tags \in TagSeqs(MaxChildren - 1)

Init == (InitDeep \/ InitWide) /\ InitRest

----------------------------------------------------------------------------
\* Expansion: match_nodes maps make_branch over the branches and collects the
\* results; the first Err ends the expansion and no code is generated.

ExpandBranch ==
    /\ pc = "expand"
    /\ bi <= Len(branches)
    /\ LET arm == MakeBranch(branches[bi])
       IN  IF arm.err
           THEN /\ pc' = "done"
                /\ outcome' = "SpecError"
                /\ UNCHANGED <<arms, bi>>
           ELSE /\ arms' = Append(arms, arm)
                /\ bi' = bi + 1
                /\ UNCHANGED <<pc, outcome>>
    /\ UNCHANGED <<branches, tags, verdicts, nodes, step, vec, calls, env,
                   result, error>>

\* The generated block starts: `let mut ___nodes = input_expr;` and
\* `let ___node_rules = ___nodes.aliased_rules();`, then the match.
EnterMatch ==
    /\ pc = "expand"
    /\ bi > Len(branches)
    /\ pc' = "match"
    /\ bi' = 1
    /\ nodes' = [x \in 1..Len(tags) |-> x]
    /\ UNCHANGED <<branches, tags, arms, verdicts, step, vec, calls, env,
                   outcome, result, error>>

\* EvalArm that prefers a later arm whose guard holds too.
EvalArmLastMatch ==
    /\ pc = "match"
    /\ bi <= Len(arms)
    /\ LET v == EvalGuard(arms[bi].conditions, tags)
           later == \E j \in (bi + 1)..Len(arms) :
                        EvalGuard(arms[j].conditions, tags) = "true"
       IN  /\ verdicts' = Append(verdicts, v)
           /\ IF v = "true" /\ ~later
              THEN /\ pc' = "parse"
                   /\ step' = 1
                   /\ UNCHANGED <<bi, outcome>>
              ELSE /\ bi' = bi + 1
                   /\ UNCHANGED <<pc, step, outcome>>
    /\ UNCHANGED <<branches, tags, arms, nodes, vec, calls, env, result, error>>

\* The guard of the next arm of `match ()`.
EvalArm ==
    /\ pc = "match"
    /\ bi <= Len(arms)
    /\ LET v == EvalGuard(arms[bi].conditions, tags)
       IN  /\ verdicts' = Append(verdicts, v)
           /\ CASE v = "true" ->
                    /\ pc' = "parse"
                    /\ step' = 1
                    /\ UNCHANGED <<bi, outcome>>
                [] v = "false" ->
                    /\ bi' = bi + 1
                    /\ UNCHANGED <<pc, step, outcome>>
                [] OTHER ->
                    /\ pc' = "done"
                    /\ outcome' = "Panic"
                    /\ UNCHANGED <<bi, step>>
    /\ UNCHANGED <<branches, tags, arms, nodes, vec, calls, env, result, error>>

\* NoArm reporting an error without the observed rules.
NoArmBlank ==
    /\ pc = "match"
    /\ bi > Len(arms)
    /\ pc' = "done"
    /\ outcome' = "NoMatch"
    /\ error' = <<>>
    /\ UNCHANGED <<branches, tags, arms, bi, verdicts, nodes, step, vec, calls,
                   env, result>>

\* `_ => return Err(___nodes.error(format!("Nodes didn't match any pattern:
\* {:?}", ___node_rules)))`
NoArm ==
    /\ pc = "match"
    /\ bi > Len(arms)
    /\ pc' = "done"
    /\ outcome' = "NoMatch"
    /\ error' = tags
    /\ UNCHANGED <<branches, tags, arms, bi, verdicts, nodes, step, vec, calls,
                   env, result>>

\* The value a conversion function returns for a child.
Value(rule, child) == [rule |-> rule, child |-> child]

Call(rule, child, ok) == [branch |-> bi, rule |-> rule, child |-> child, ok |-> ok]

\* TakeNode that always takes from the front.
TakeNodeFront(kind, ns) ==
    IF ns = <<>> THEN [child |-> 0, rest |-> ns]
    ELSE [child |-> Head(ns), rest |-> Tail(ns)]

\* `___nodes.next()` / `___nodes.next_back()`: the child taken (0 for None)
\* and the children left.
TakeNode(kind, ns) ==
    IF ns = <<>> THEN [child |-> 0, rest |-> ns]
    ELSE IF kind = "next_back" THEN [child |-> Last(ns), rest |-> Front(ns)]
    ELSE [child |-> Head(ns), rest |-> Tail(ns)]

\* OnConvError that drops the error and goes on with the next statement.
OnConvErrorSwallow(c) ==
    /\ step' = step + 1
    /\ UNCHANGED <<pc, outcome, error, env, vec>>

\* What a failed conversion does to the running arm: `?` returns the error
\* from the enclosing function, whose locals go out of scope.
OnConvError(c) ==
    /\ pc' = "done"
    /\ outcome' = "ConvError"
    /\ error' = c
    /\ env' = <<>>
    /\ vec' = <<>>
    /\ UNCHANGED step

\* `let binder = Parser::rule(___nodes.next().unwrap())?;` and the same with
\* next_back().
ParseSingle ==
    /\ pc = "parse"
    /\ step <= Len(arms[bi].parses)
    /\ arms[bi].parses[step].kind \in {"next", "next_back"}
    /\ LET ps == arms[bi].parses[step]
           t == TakeNode(ps.kind, nodes)
       IN  IF t.child = 0
           THEN /\ pc' = "done"
                /\ outcome' = "Panic"
                /\ UNCHANGED <<nodes, step, vec, calls, env, error>>
           ELSE /\ nodes' = t.rest
                /\ \E ok \in BOOLEAN :
                      /\ calls' = Append(calls, Call(ps.rule, t.child, ok))
                      /\ IF ok
                         THEN /\ env' = (ps.binder :> Value(ps.rule, t.child)) @@ env
                              /\ step' = step + 1
                              /\ UNCHANGED <<pc, outcome, error, vec>>
                         ELSE OnConvError(Call(ps.rule, t.child, ok))
    /\ UNCHANGED <<branches, tags, arms, bi, verdicts, result>>

\* One item of `___nodes.map(|i| Parser::rule(i)).collect::<Result<Vec<_>, _>>()?`:
\* collect pulls the next child, converts it, and stops at the first Err.
CollectNext ==
    /\ pc = "parse"
    /\ step <= Len(arms[bi].parses)
    /\ arms[bi].parses[step].kind = "collect"
    /\ nodes # <<>>
    /\ LET ps == arms[bi].parses[step]
           t == TakeNode("next", nodes)
       IN  /\ nodes' = t.rest
           /\ \E ok \in BOOLEAN :
                 /\ calls' = Append(calls, Call(ps.rule, t.child, ok))
                 /\ IF ok
                    THEN /\ vec' = Append(vec, Value(ps.rule, t.child))
                         /\ UNCHANGED <<pc, outcome, error, env, step>>
                    ELSE OnConvError(Call(ps.rule, t.child, ok))
    /\ UNCHANGED <<branches, tags, arms, bi, verdicts, result>>

\* The iterator is exhausted: `let binder = vec.into_iter();`
CollectDone ==
    /\ pc = "parse"
    /\ step <= Len(arms[bi].parses)
    /\ arms[bi].parses[step].kind = "collect"
    /\ nodes = <<>>
    /\ env' = (arms[bi].parses[step].binder :> vec) @@ env
    /\ vec' = <<>>
    /\ step' = step + 1
    /\ UNCHANGED <<branches, tags, pc, arms, bi, verdicts, nodes, calls,
                   outcome, result, error>>

\* `#body`, with the binders in scope.
RunBody ==
    /\ pc = "parse"
    /\ step > Len(arms[bi].parses)
    /\ pc' = "done"
    /\ outcome' = "Ok"
    /\ result' = <<bi, env>>
    /\ UNCHANGED <<branches, tags, arms, bi, verdicts, nodes, step, vec, calls,
                   env, error>>

Next ==
    \/ ExpandBranch
    \/ EnterMatch
    \/ EvalArm
    \/ NoArm
    \/ ParseSingle
    \/ CollectNext
    \/ CollectDone
    \/ RunBody

Spec == Init /\ [][Next]_vars

----------------------------------------------------------------------------
\* The declared shape of a pattern, read off the pattern itself (not off the
\* generated arm): what the properties below are stated in.

VariadicPositions(pattern) ==
    {k \in 1..Len(pattern) : pattern[k].kind = "Multiple"}

WellFormed(pattern) == Cardinality(VariadicPositions(pattern)) <= 1

HasVariadic(pattern) == Cardinality(VariadicPositions(pattern)) = 1

VariadicAt(pattern) == CHOOSE k \in VariadicPositions(pattern) : TRUE

PrefixLen(pattern) ==
    IF HasVariadic(pattern) THEN VariadicAt(pattern) - 1 ELSE Len(pattern)

SuffixLen(pattern) ==
    IF HasVariadic(pattern) THEN Len(pattern) - VariadicAt(pattern) ELSE 0

\* The declared position of the j-th suffix item, j counted from 0, and the
\* item there.
SuffixPos(pattern, j) == VariadicAt(pattern) + 1 + j

SuffixItem(pattern, j) == pattern[SuffixPos(pattern, j)]

\* The match condition of a branch with a variadic item, with 0-based i, j
\* and x as in the statement.
VariadicShape(pattern, t) ==
    LET p == PrefixLen(pattern)
        s == SuffixLen(pattern)
        n == Len(t)
    IN  /\ p + s <= n
        /\ \A i \in 0..(p - 1) : t[i + 1] = pattern[i + 1].rule
        /\ \A j \in 0..(s - 1) : t[(n - 1 - j) + 1] = SuffixItem(pattern, j).rule
        /\ \A x \in p..(n - s - 1) : t[x + 1] = pattern[VariadicAt(pattern)].rule

\* The match condition of a branch without a variadic item.
ExactShape(pattern, t) ==
    /\ Len(t) = Len(pattern)
    /\ \A i \in 1..Len(pattern) : t[i] = pattern[i].rule

ShapeMatches(pattern, t) ==
    IF HasVariadic(pattern) THEN VariadicShape(pattern, t) ELSE ExactShape(pattern, t)

MatchingBranches == {j \in DOMAIN branches : ShapeMatches(branches[j], tags)}

FirstMatching == CHOOSE j \in MatchingBranches : \A i \in MatchingBranches : j <= i

\* An arm is running or has run.
ArmEntered == pc = "parse" \/ calls # <<>> \/ outcome \in {"Ok", "ConvError"}

AllChildren == [x \in 1..Len(tags) |-> x]

\* The order in which the children of a matched branch are converted.
ConsumptionOrder(pattern, n) ==
    LET p == PrefixLen(pattern)
        s == SuffixLen(pattern)
    IN  [x \in 1..n |-> IF x <= p THEN x
                        ELSE IF x <= p + s THEN n - (x - p) + 1
                        ELSE x - s]

----------------------------------------------------------------------------
\* C1 (first match): whenever an arm runs, it is the arm of the lowest-indexed
\* branch whose shape matches the child tags; every conversion call belongs to
\* that branch and the body that runs is that branch's.
C1_FirstMatch ==
    ArmEntered =>
        /\ MatchingBranches # {}
        /\ bi = FirstMatching
        /\ \A k \in DOMAIN calls : calls[k].branch = FirstMatching
        /\ outcome = "Ok" => result[1] = FirstMatching

\* Two different branches both match, the first one has run to its body after
\* converting a child.
C1_Witness ==
    /\ outcome = "Ok"
    /\ calls # <<>>
    /\ \E i, j \in MatchingBranches : i < j /\ branches[i] # branches[j]

\* C2 (variadic match): the guard of a branch with a variadic item holds iff
\* p + s <= n, the prefix tags align from the front, tags[n-1-j] is the rule of
\* the j-th suffix item, and every tag in [p, n-s) is the variadic's rule.
C2_VariadicMatch ==
    \A j \in DOMAIN verdicts :
        HasVariadic(branches[j]) =>
            ((verdicts[j] = "true") <=> VariadicShape(branches[j], tags))

\* A branch with a prefix, a variadic item and a suffix matched a node with
\* exactly p + s children.
C2_Witness ==
    \E j \in DOMAIN verdicts :
        /\ HasVariadic(branches[j])
        /\ verdicts[j] = "true"
        /\ PrefixLen(branches[j]) >= 1
        /\ SuffixLen(branches[j]) >= 1
        /\ Len(tags) = PrefixLen(branches[j]) + SuffixLen(branches[j])

\* C3 (exact match): the guard of a branch without a variadic item holds iff
\* the node has as many children as the pattern has items and the i-th tag is
\* the i-th item's rule.
C3_ExactMatch ==
    \A j \in DOMAIN verdicts :
        VariadicPositions(branches[j]) = {} =>
            ((verdicts[j] = "true") <=> ExactShape(branches[j], tags))

\* The empty pattern matched a node without children.
C3_Witness ==
    \E j \in DOMAIN verdicts :
        /\ branches[j] = <<>>
        /\ verdicts[j] = "true"
        /\ tags = <<>>

\* C4 (own tag): every conversion call applies the conversion function of a
\* rule to a child that carries that rule's tag.
C4_ConvertOwnTag ==
    \A k \in DOMAIN calls : tags[calls[k].child] = calls[k].rule

\* C5 (declared-order binding): after a successful extraction the j-th prefix
\* binder holds the conversion of child j, the j-th suffix binder that of child
\* n-s+j, and the variadic binder those of children p .. n-s-1 in child order.
C5_DeclaredOrder ==
    outcome = "Ok" =>
        LET pat == branches[result[1]]
            e == result[2]
            p == PrefixLen(pat)
            s == SuffixLen(pat)
            n == Len(tags)
        IN  /\ DOMAIN e = 1..Len(pat)
            /\ \A j \in 0..(p - 1) : e[j + 1] = Value(pat[j + 1].rule, j + 1)
            /\ \A j \in 0..(s - 1) :
                  e[SuffixPos(pat, j)] =
                      Value(SuffixItem(pat, j).rule, (n - s + j) + 1)
            /\ HasVariadic(pat) =>
                  e[VariadicAt(pat)] =
                      [x \in 1..(n - s - p) |->
                          Value(pat[VariadicAt(pat)].rule, p + x)]

\* A branch with a prefix, a variadic item that bound a child, and two suffix
\* items ran its body.
C5_Witness ==
    /\ outcome = "Ok"
    /\ HasVariadic(branches[result[1]])
    /\ PrefixLen(branches[result[1]]) >= 1
    /\ SuffixLen(branches[result[1]]) >= 2
    /\ Len(tags) > PrefixLen(branches[result[1]]) + SuffixLen(branches[result[1]])

\* C6 (fail fast): a failed conversion call is the last call ever made; the
\* dispatch is over with exactly that error, no later branch was tried, the
\* body did not run and no binding is left.
C6_FailFast ==
    /\ \A k \in DOMAIN calls :
          ~calls[k].ok =>
              /\ k = Len(calls)
              /\ pc = "done"
              /\ outcome = "ConvError"
              /\ error = calls[k]
              /\ Len(verdicts) = calls[k].branch
              /\ result = <<>>
              /\ env = <<>>
    /\ outcome = "ConvError" => calls # <<>> /\ ~Last(calls).ok

\* The second conversion call failed while a child was still unconverted and
\* a later branch that matches too was left untried.
C6_Witness ==
    /\ outcome = "ConvError"
    /\ Len(calls) >= 2
    /\ nodes # <<>>
    /\ \E j \in MatchingBranches : j > bi

\* C7 (no match): a dispatch that was generated ends in the no-match error iff
\* no branch matches the child tags; the error carries all the tags in child
\* order, no conversion was called and no child was consumed.
C7_NoMatch ==
    (pc = "done" /\ outcome # "SpecError") =>
        /\ (outcome = "NoMatch") <=> (MatchingBranches = {})
        /\ outcome = "NoMatch" =>
              /\ error = tags
              /\ calls = <<>>
              /\ nodes = AllChildren

\* A node with fewer children than the fixed items of every branch, one of
\* them with a variadic item, ended in the no-match error.
C7_Witness ==
    /\ outcome = "NoMatch"
    /\ tags # <<>>
    /\ branches # <<>>
    /\ \E j \in DOMAIN branches : HasVariadic(branches[j])
    /\ \A j \in DOMAIN branches :
          Len(tags) < PrefixLen(branches[j]) + SuffixLen(branches[j])

\* C8 (multiple variadic): with a branch of more than one variadic item in the
\* list, the only outcome is the specification error; no guard is evaluated
\* and no conversion is called.
C8_MultipleVariadic ==
    (\E j \in DOMAIN branches : ~WellFormed(branches[j])) =>
        /\ pc \in {"expand", "done"}
        /\ outcome \in {"none", "SpecError"}
        /\ pc = "done" => outcome = "SpecError"
        /\ verdicts = <<>>
        /\ calls = <<>>
        /\ nodes = <<>>

\* The specification error was reported for a second branch although the
\* first branch matches the children.
C8_Witness ==
    /\ outcome = "SpecError"
    /\ Len(branches) >= 2
    /\ WellFormed(branches[1])
    /\ ShapeMatches(branches[1], tags)
    /\ tags # <<>>

\* C9 (consumption order): the conversion calls of a matched branch follow the
\* child order 0 .. p-1, then n-1 down to n-s, then p .. n-s-1; when the body
\* runs every child has been converted exactly once and none is left.
C9_ConsumptionOrder ==
    ArmEntered =>
        LET order == ConsumptionOrder(branches[bi], Len(tags))
        IN  /\ Len(calls) <= Len(tags)
            /\ \A k \in DOMAIN calls : calls[k].child = order[k]
            /\ outcome = "Ok" =>
                  /\ nodes = <<>>
                  /\ \A c \in 1..Len(tags) :
                        Cardinality({k \in DOMAIN calls : calls[k].child = c}) = 1

\* A branch with a prefix, a non-empty variadic span and two suffix items ran
\* its body.
C9_Witness ==
    /\ outcome = "Ok"
    /\ PrefixLen(branches[bi]) >= 1
    /\ SuffixLen(branches[bi]) >= 2
    /\ Len(calls) > PrefixLen(branches[bi]) + SuffixLen(branches[bi])

\* C10 (bounds safety): no guard reads a tag outside the node or forms a
\* reversed middle range, and no extraction takes a child from an exhausted
\* iterator: nothing panics.
C10_NoPanic ==
    /\ outcome # "Panic"
    /\ \A j \in DOMAIN verdicts : verdicts[j] \in {"true", "false"}

\* The guard of a branch with prefix and suffix items was evaluated on a node
\* without children, and the guard of a branch with a variadic item on a node
\* with fewer children than its fixed items.
C10_Witness ==
    \E j \in DOMAIN verdicts :
        /\ verdicts[j] = "false"
        /\ HasVariadic(branches[j])
        /\ PrefixLen(branches[j]) >= 1
        /\ SuffixLen(branches[j]) >= 1
        /\ Len(tags) < PrefixLen(branches[j]) + SuffixLen(branches[j])

====
